---- MODULE Spec2Model ----
(***************************************************************************)
(* Tiled inference over a raster layer (MapProcessor / TileParams of       *)
(* processing/map_processor.py): extent arithmetic, tile grid, stitching   *)
(* loop with cooperative cancellation, and the hand-over of the result.    *)
(*                                                                         *)
(* Spatial coordinates are integers (map units).  A pixel of the processed *)
(* image is rlayer_units_per_pixel map units wide, so an extent may be a   *)
(* fractional number of pixels wide and Python's round() is modelled as    *)
(* what it is: round-half-to-even of a quotient.                           *)
(***************************************************************************)
EXTENDS Integers, Sequences, FiniteSets, TLC

\* ---------------------------------------------------------------- bounds
MaxTileSize == 3
MaxRasterPx == 3

\* ------------------------------------------------------------ input sets
TileSizes == 2..MaxTileSize
UnitsPerPixel == {1, 2}
GridSpacings == {1, 2}
RasterOrigins == {<<0, 0>>, <<1, 2>>}
WindowMins == {-1, 2}
WindowMaxs == {3, 5}

\* ------------------------------------------------- Python / numpy helpers
\* Python 3 round(a / b) for b > 0: nearest integer, ties to the even one.
PyRound(a, b) ==
    LET q == a \div b
        r == a % b
    IN  IF 2 * r < b THEN q
        ELSE IF 2 * r > b THEN q + 1
        ELSE IF q % 2 = 0 THEN q ELSE q + 1

\* Python int(a / b) for b > 0: truncation toward zero.
PyInt(a, b) == IF a >= 0 THEN a \div b ELSE -((-a) \div b)

Max(a, b) == IF a >= b THEN a ELSE b
Min(a, b) == IF a <= b THEN a ELSE b

\* numpy clips a slice bound with 0 <= bound to the length of the axis.
ClipIndex(i, len) == Min(Max(i, 0), len)

\* ------------------------------------------------------------ QgsRectangle
Rect(x0, y0, x1, y1) == [xMin |-> x0, yMin |-> y0, xMax |-> x1, yMax |-> y1]
NullRect == Rect(0, 0, 0, 0)
Width(r) == r.xMax - r.xMin
Height(r) == r.yMax - r.yMin
IsNull(r) == r = NullRect

Intersects(a, b) ==
    /\ ~IsNull(a)
    /\ ~IsNull(b)
    /\ Max(a.xMin, b.xMin) <= Min(a.xMax, b.xMax)
    /\ Max(a.yMin, b.yMin) <= Min(a.yMax, b.yMax)

\* QgsRectangle.intersect: the common part, or the null rectangle.
intersect(a, b) ==
    IF Intersects(a, b)
    THEN Rect(Max(a.xMin, b.xMin), Max(a.yMin, b.yMin),
              Min(a.xMax, b.xMax), Min(a.yMax, b.yMax))
    ELSE NullRect

Contains(outer, inner) ==
    /\ outer.xMin <= inner.xMin
    /\ outer.yMin <= inner.yMin
    /\ outer.xMax >= inner.xMax
    /\ outer.yMax >= inner.yMax

\* ----------------------------------------------------- InferenceParameters
processing_stride_px(ip) == ip.tile_size_px - ip.processing_overlap_px

InferenceParametersSet ==
    { ip \in [tile_size_px : TileSizes, processing_overlap_px : 0..(MaxTileSize - 1)] :
        processing_stride_px(ip) > 0 }

\* -------------------------------------------------------------- extents
round_extent_to_rlayer_grid(extent, rl) ==
    LET g  == rl.grid_spacing
        sx == rl.extent.xMin
        sy == rl.extent.yMin
    IN  Rect(sx + PyInt(extent.xMin - sx, g) * g,
             sy + PyInt(extent.yMin - sy, g) * g,
             sx + PyInt(extent.xMax - sx, g) * g,
             sy + PyInt(extent.yMax - sy, g) * g)

_calculate_base_processing_extent_in_rlayer_crs(expected, rl) ==
    intersect(round_extent_to_rlayer_grid(expected, rl), rl.extent)

\* The padded extent, clamped to the layer (lines 462-471).
PaddedExtent(base, ip, upp, rl) ==
    LET additional_pixels_in_units == (ip.processing_overlap_px \div 2) * upp
    IN  intersect(Rect(base.xMin - additional_pixels_in_units,
                       base.yMin - additional_pixels_in_units,
                       base.xMax + additional_pixels_in_units,
                       base.yMax + additional_pixels_in_units),
                  rl.extent)

\* Pixels to add to one axis so that it is N * stride + tile_size (477-489).
MissingPixels(current_pixels, ip) ==
    IF current_pixels <= ip.tile_size_px
    THEN ip.tile_size_px - current_pixels
    ELSE (processing_stride_px(ip)
            - ((current_pixels - ip.tile_size_px) % processing_stride_px(ip)))
         % processing_stride_px(ip)

\* Variant that also moves the min bounds down by the missing pixels.
_calculate_extended_processing_extent_both_sides(base, ip, upp, rl) ==
    LET tmp_extent == PaddedExtent(base, ip, upp, rl)
        current_x_pixels == PyRound(Width(tmp_extent), upp)
        current_y_pixels == PyRound(Height(tmp_extent), upp)
    IN  [tmp_extent EXCEPT
           !.xMin = @ - MissingPixels(current_x_pixels, ip) * upp,
           !.yMin = @ - MissingPixels(current_y_pixels, ip) * upp]

_calculate_extended_processing_extent(base, ip, upp, rl) ==
    LET tmp_extent == PaddedExtent(base, ip, upp, rl)
        current_x_pixels == PyRound(Width(tmp_extent), upp)
        current_y_pixels == PyRound(Height(tmp_extent), upp)
    IN  [tmp_extent EXCEPT
           !.xMax = @ + MissingPixels(current_x_pixels, ip) * upp,
           !.yMax = @ + MissingPixels(current_y_pixels, ip) * upp]

\* Number of tiles along one axis (lines 185-188).
BinsNumber(img_size_pixels, ip) ==
    PyRound(img_size_pixels - ip.tile_size_px, processing_stride_px(ip)) + 1

\* ------------------------------------------------------------ TileParams
_calculate_extent(processing_extent, start_pixel_x, start_pixel_y, ip, upp) ==
    LET x_min == processing_extent.xMin + start_pixel_x * upp
        y_max == processing_extent.yMax - start_pixel_y * upp
    IN  Rect(x_min, y_max - ip.tile_size_px * upp,
             x_min + ip.tile_size_px * upp, y_max)

TileParams(xb, yb, xbins, ybins, ip, upp, processing_extent) ==
    [x_bin_number  |-> xb,
     y_bin_number  |-> yb,
     x_bins_number |-> xbins,
     y_bins_number |-> ybins,
     stride_px     |-> processing_stride_px(ip),
     start_pixel_x |-> xb * processing_stride_px(ip),
     start_pixel_y |-> yb * processing_stride_px(ip),
     tile_size_px  |-> ip.tile_size_px,
     extent        |-> _calculate_extent(processing_extent,
                                         xb * processing_stride_px(ip),
                                         yb * processing_stride_px(ip), ip, upp)]

\* First and last (inclusive) pixel of the copied part along one axis.
CoreMin(bin_number, tp) ==
    LET half_overlap == (tp.tile_size_px - tp.stride_px) \div 2
        start_pixel  == bin_number * tp.stride_px
    IN  IF bin_number = 0 THEN start_pixel + half_overlap - half_overlap
        ELSE start_pixel + half_overlap

CoreMax(bin_number, bins_number, tp) ==
    LET half_overlap == (tp.tile_size_px - tp.stride_px) \div 2
        start_pixel  == bin_number * tp.stride_px
    IN  IF bin_number = bins_number - 1
        THEN start_pixel + tp.tile_size_px - half_overlap - 1 + half_overlap
        ELSE start_pixel + tp.tile_size_px - half_overlap - 1

\* np.s_[y_min:y_max + 1, x_min:x_max + 1] as start/stop pairs.
get_slice_on_full_image_for_copying(tp) ==
    [y_start |-> CoreMin(tp.y_bin_number, tp),
     y_stop  |-> CoreMax(tp.y_bin_number, tp.y_bins_number, tp) + 1,
     x_start |-> CoreMin(tp.x_bin_number, tp),
     x_stop  |-> CoreMax(tp.x_bin_number, tp.x_bins_number, tp) + 1]

get_slice_on_tile_image_for_copying(tp, r) ==
    [y_start |-> r.y_start - tp.start_pixel_y,
     y_stop  |-> r.y_stop - tp.start_pixel_y,
     x_start |-> r.x_start - tp.start_pixel_x,
     x_stop  |-> r.x_stop - tp.start_pixel_x]

\* ------------------------------------------------------------------ state
VARIABLES
    rlayer,                  \* [extent, grid_spacing] of the raster layer
    inference_parameters,    \* [tile_size_px, processing_overlap_px]
    rlayer_units_per_pixel,  \* map units per processed pixel
    base_extent,
    extended_extent,
    img_size_x_pixels,
    img_size_y_pixels,
    x_bins_number,
    y_bins_number,
    mask_size_px,            \* side length of the masks the predictor returns
    pc,                      \* position of the task
    x_bin_number,
    y_bin_number,
    full_result_img,         \* <<y, x>> -> value; <<>> before _process
    canceled,                \* QgsTask cancellation flag
    progress_log,            \* values passed to setProgress, as fractions
    result,                  \* what run() handed to finished()
    finished_signal,         \* what finished_signal emitted
    project_layers,          \* number of layers added to the project
    write_count,             \* history: <<y, x>> -> number of writes
    visited,                 \* history: <<y_bin, x_bin>> of each iteration
    calls,                   \* history: calls of isCanceled, _get_image, ...
    outcome,                 \* history: how _process ended
    cv_contours,             \* _create_vlayer_from_mask: contours, in layer CRS
    hierarchy,               \* contour i -> <<next, previous, first_child, parent>>
    features,                \* polygons: <<outer ring, hole ring, ...>>
    stack,                   \* calls of _convert_cv_contours_to_features
    vec_pc,                  \* position in _create_vlayer_from_mask
    vec_visited              \* history: contours the walk looked at, in order

geometry == <<rlayer, inference_parameters, rlayer_units_per_pixel, base_extent,
              extended_extent, img_size_x_pixels, img_size_y_pixels,
              x_bins_number, y_bins_number, mask_size_px>>
vars == <<rlayer, inference_parameters, rlayer_units_per_pixel, base_extent,
          extended_extent, img_size_x_pixels, img_size_y_pixels,
          x_bins_number, y_bins_number, mask_size_px, pc, x_bin_number,
          y_bin_number,
          full_result_img, canceled, progress_log, result, finished_signal,
          project_layers, write_count, visited, calls, outcome,
          cv_contours, hierarchy, features, stack, vec_pc, vec_visited>>
vectorizer == <<cv_contours, hierarchy, features, stack, vec_pc, vec_visited>>

stride_px == processing_stride_px(inference_parameters)
total_tiles == x_bins_number * y_bins_number
Pixels == (0..(img_size_y_pixels - 1)) \X (0..(img_size_x_pixels - 1))

RasterLayers ==
    { [extent |-> Rect(o[1], o[2], o[1] + nx * g, o[2] + ny * g),
       grid_spacing |-> g] :
        o \in RasterOrigins, g \in GridSpacings,
        nx \in 1..MaxRasterPx, ny \in 1..MaxRasterPx }

\* Extents of the visible map part or of the mask polygons, in layer CRS.
Windows ==
    { Rect(x0, y0, x1, y1) :
        x0 \in WindowMins, y0 \in WindowMins, x1 \in WindowMaxs, y1 \in WindowMaxs }

\* The extents _calculate_base_processing_extent_in_rlayer_crs may compute for
\* a layer: the layer's own (ENTIRE_LAYER) or a window.
ExpectedExtents(rl) == {rl.extent} \cup Windows

\* Side lengths of the square mask a predictor may return for a tile.
MaskSizes(ip) == {ip.tile_size_px - 1, ip.tile_size_px, ip.tile_size_px + 1}

\* MapProcessor.__init__
Init ==
    \E rl \in RasterLayers, ip \in InferenceParametersSet, upp \in UnitsPerPixel :
    \E expected \in ExpectedExtents(rl), ms \in MaskSizes(ip) :
      LET base == _calculate_base_processing_extent_in_rlayer_crs(expected, rl)
          ext  == _calculate_extended_processing_extent(base, ip, upp, rl)
          sx   == PyRound(Width(ext), upp)
          sy   == PyRound(Height(ext), upp)
      IN  /\ rlayer = rl
          /\ inference_parameters = ip
          /\ rlayer_units_per_pixel = upp
          /\ base_extent = base
          /\ extended_extent = ext
          /\ img_size_x_pixels = sx
          /\ img_size_y_pixels = sy
          /\ x_bins_number = BinsNumber(sx, ip)
          /\ y_bins_number = BinsNumber(sy, ip)
          /\ mask_size_px = ms
          /\ pc = "created"
          /\ x_bin_number = 0
          /\ y_bin_number = 0
          /\ full_result_img = << >>
          /\ canceled = FALSE
          /\ progress_log = << >>
          /\ result = "none"
          /\ finished_signal = "none"
          /\ project_layers = 0
          /\ write_count = << >>
          /\ visited = << >>
          /\ calls = [isCanceled |-> 0, get_image |-> 0, process_tile |-> 0,
                      set_mask |-> 0, create_vlayer |-> 0]
          /\ outcome = "none"
          /\ cv_contours = << >>
          /\ hierarchy = << >>
          /\ features = << >>
          /\ stack = << >>
          /\ vec_pc = "idle"
          /\ vec_visited = << >>

\* ----------------------------------------------------------- tile results
\* The prediction of tile tile_no at its local pixel <<ly, lx>>.  The
\* predictor is opaque; its value is named by where it comes from.
MaskValue(tile_no, ly, lx) == <<tile_no, ly, lx>>

CurrentTileParams ==
    TileParams(x_bin_number, y_bin_number, x_bins_number, y_bins_number,
               inference_parameters, rlayer_units_per_pixel, extended_extent)

\* Length of a slice start:stop on an axis of length len.
SliceLen(start, stop, len) == Max(ClipIndex(stop, len) - ClipIndex(start, len), 0)

\* numpy's rule for full[dst] = tile[src]: along each axis the source has the
\* length of the destination, or length 1 (it is then repeated).
Broadcasts(src_len, dst_len) == src_len = dst_len \/ src_len = 1

\* tile_result is mask_len x mask_len.
SetMaskFits(tp, mask_len) ==
    LET dst == get_slice_on_full_image_for_copying(tp)
        src == get_slice_on_tile_image_for_copying(tp, dst)
    IN  /\ Broadcasts(SliceLen(src.y_start, src.y_stop, mask_len),
                      SliceLen(dst.y_start, dst.y_stop, img_size_y_pixels))
        /\ Broadcasts(SliceLen(src.x_start, src.x_stop, mask_len),
                      SliceLen(dst.x_start, dst.x_stop, img_size_x_pixels))

\* The pixels of the full image that the assignment writes.
WrittenPixels(tp) ==
    LET dst == get_slice_on_full_image_for_copying(tp)
    IN  { p \in Pixels : /\ dst.y_start <= p[1] /\ p[1] < dst.y_stop
                         /\ dst.x_start <= p[2] /\ p[2] < dst.x_stop }

\* The index on the tile result that lands on pixel i of the full image.
SourceIndex(i, dst_start, src_start, src_stop, mask_len) ==
    IF SliceLen(src_start, src_stop, mask_len) = 1
    THEN src_start
    ELSE src_start + (i - dst_start)

_set_mask_on_full_img(img, tile_no, tp, mask_len) ==
    LET dst == get_slice_on_full_image_for_copying(tp)
        src == get_slice_on_tile_image_for_copying(tp, dst)
    IN  [p \in DOMAIN img |->
           IF p \in WrittenPixels(tp)
           THEN MaskValue(tile_no,
                          SourceIndex(p[1], dst.y_start, src.y_start, src.y_stop,
                                      mask_len),
                          SourceIndex(p[2], dst.x_start, src.x_start, src.x_stop,
                                      mask_len))
           ELSE img[p]]

\* --------------------------------------------------------------- actions
\* Variant in which the exception is swallowed and the loops are left.
Raise_swallowed ==
    /\ pc' = "postprocess"
    /\ result' = result
    /\ outcome' = "error"

\* An exception leaves run(); the task ends as not successful.
Raise ==
    /\ pc' = "returned"
    /\ result' = "False"
    /\ outcome' = "error"

\* run() -> _process(), lines 291-298.
Start ==
    /\ pc = "created"
    /\ full_result_img' = [p \in Pixels |-> 0]
    /\ write_count' = [p \in Pixels |-> 0]
    /\ IF total_tiles < 1
       THEN Raise
       ELSE /\ pc' = IF y_bins_number >= 1 /\ x_bins_number >= 1
                     THEN "check" ELSE "postprocess"
            /\ UNCHANGED <<result, outcome>>
    /\ UNCHANGED <<geometry, vectorizer,
                   x_bin_number, y_bin_number, canceled, progress_log,
                   finished_signal, project_layers, visited, calls>>

\* Variant in which a seen cancellation does not leave the loop.
CheckCanceled_no_return ==
    /\ pc = "check"
    /\ calls' = [calls EXCEPT !.isCanceled = @ + 1]
    /\ pc' = "fetch"
    /\ IF canceled
       THEN /\ result' = "False"
            /\ outcome' = "canceled"
            /\ UNCHANGED <<progress_log, visited>>
       ELSE /\ progress_log' = Append(progress_log,
                   [num |-> (y_bin_number * x_bins_number + x_bin_number) * 100,
                    den |-> total_tiles])
            /\ visited' = Append(visited, <<y_bin_number, x_bin_number>>)
            /\ UNCHANGED <<result, outcome>>
    /\ UNCHANGED <<geometry, vectorizer,
                   x_bin_number, y_bin_number, full_result_img, canceled,
                   finished_signal, project_layers, write_count>>

\* Top of an iteration, lines 302-307.
CheckCanceled ==
    /\ pc = "check"
    /\ calls' = [calls EXCEPT !.isCanceled = @ + 1]
    /\ IF canceled
       THEN /\ pc' = "returned"
            /\ result' = "False"
            /\ outcome' = "canceled"
            /\ UNCHANGED <<progress_log, visited>>
       ELSE /\ pc' = "fetch"
            /\ progress_log' = Append(progress_log,
                   [num |-> (y_bin_number * x_bins_number + x_bin_number) * 100,
                    den |-> total_tiles])
            /\ visited' = Append(visited, <<y_bin_number, x_bin_number>>)
            /\ UNCHANGED <<result, outcome>>
    /\ UNCHANGED <<geometry, vectorizer,
                   x_bin_number, y_bin_number, full_result_img, canceled,
                   finished_signal, project_layers, write_count>>

\* TileParams(...) and _get_image, lines 309-314 and 222-274.
GetImage ==
    /\ pc = "fetch"
    /\ calls' = [calls EXCEPT !.get_image = @ + 1]
    /\ \E provider_ok \in BOOLEAN :
         LET extent == CurrentTileParams.extent
             image_size == <<PyRound(Width(extent), rlayer_units_per_pixel),
                             PyRound(Height(extent), rlayer_units_per_pixel)>>
         IN  IF /\ image_size[1] = inference_parameters.tile_size_px
                /\ image_size[2] = inference_parameters.tile_size_px
                /\ provider_ok
             THEN pc' = "predict" /\ UNCHANGED <<result, outcome>>
             ELSE Raise
    /\ UNCHANGED <<geometry, vectorizer,
                   x_bin_number, y_bin_number, full_result_img, canceled,
                   progress_log, finished_signal, project_layers, write_count,
                   visited>>

\* _process_tile, line 318.
ProcessTile ==
    /\ pc = "predict"
    /\ calls' = [calls EXCEPT !.process_tile = @ + 1]
    /\ \E predictor_ok \in BOOLEAN :
         IF predictor_ok
         THEN pc' = "copy" /\ UNCHANGED <<result, outcome>>
         ELSE Raise
    /\ UNCHANGED <<geometry, vectorizer,
                   x_bin_number, y_bin_number, full_result_img, canceled,
                   progress_log, finished_signal, project_layers, write_count,
                   visited>>

\* Variant with the two loops swapped (columns outside, rows inside).
NextBin_column_major(yb, xb, ybins, xbins) ==
    IF yb + 1 < ybins THEN [y |-> yb + 1, x |-> xb, more |-> TRUE]
    ELSE IF xb + 1 < xbins THEN [y |-> 0, x |-> xb + 1, more |-> TRUE]
    ELSE [y |-> yb, x |-> xb, more |-> FALSE]

\* The nested for loops of lines 300-301: the bin after <<yb, xb>>.
NextBin(yb, xb, ybins, xbins) ==
    IF xb + 1 < xbins THEN [y |-> yb, x |-> xb + 1, more |-> TRUE]
    ELSE IF yb + 1 < ybins THEN [y |-> yb + 1, x |-> 0, more |-> TRUE]
    ELSE [y |-> yb, x |-> xb, more |-> FALSE]

\* _set_mask_on_full_img and the step of the two loops, lines 300-301, 321-323.
SetMask ==
    /\ pc = "copy"
    /\ calls' = [calls EXCEPT !.set_mask = @ + 1]
    /\ LET tp == CurrentTileParams
           tile_no == y_bin_number * x_bins_number + x_bin_number
       IN  IF SetMaskFits(tp, mask_size_px)
           THEN /\ full_result_img' = _set_mask_on_full_img(full_result_img, tile_no,
                                                           tp, mask_size_px)
                /\ write_count' = [p \in DOMAIN write_count |->
                       IF p \in WrittenPixels(tp)
                       THEN write_count[p] + 1 ELSE write_count[p]]
                /\ LET nxt == NextBin(y_bin_number, x_bin_number,
                                      y_bins_number, x_bins_number)
                   IN  /\ y_bin_number' = nxt.y
                       /\ x_bin_number' = nxt.x
                       /\ pc' = IF nxt.more THEN "check" ELSE "postprocess"
                /\ UNCHANGED <<result, outcome>>
           ELSE /\ Raise
                /\ UNCHANGED <<full_result_img, write_count, x_bin_number,
                               y_bin_number>>
    /\ UNCHANGED <<geometry, vectorizer,
                   canceled, progress_log, finished_signal,
                   project_layers, visited>>

\* _erode_dilate_image, _create_vlayer_from_mask, return True: lines 325-328.
\* The walk that fills the layer is followed step by step in SpecVec.
CreateVlayer ==
    /\ pc = "postprocess"
    /\ calls' = [calls EXCEPT !.create_vlayer = @ + 1]
    /\ project_layers' = project_layers + 1
    /\ pc' = "returned"
    /\ result' = "True"
    /\ outcome' = "ok"
    /\ UNCHANGED <<geometry, vectorizer,
                   x_bin_number, y_bin_number, full_result_img, canceled,
                   progress_log, finished_signal, write_count, visited>>

\* The signal finished() emits for a result.
FinishedSignal(res) == IF res = "True" THEN "" ELSE "Processing error"

\* finished(result), lines 204-209.
finished ==
    /\ pc = "returned"
    /\ finished_signal' = FinishedSignal(result)
    /\ pc' = "finished"
    /\ UNCHANGED <<geometry, vectorizer,
                   x_bin_number, y_bin_number, full_result_img, canceled,
                   progress_log, result, project_layers, write_count, visited,
                   calls, outcome>>

\* QgsTask.cancel() from the GUI thread while the task runs.
cancel ==
    /\ pc \in {"check", "fetch", "predict", "copy", "postprocess"}
    /\ ~canceled
    /\ canceled' = TRUE
    /\ UNCHANGED <<geometry, vectorizer,
                   pc, x_bin_number, y_bin_number, full_result_img,
                   progress_log, result, finished_signal, project_layers,
                   write_count, visited, calls, outcome>>

Next ==
    \/ Start
    \/ CheckCanceled
    \/ GetImage
    \/ ProcessTile
    \/ SetMask
    \/ CreateVlayer
    \/ finished
    \/ cancel

Spec == Init /\ [][Next]_vars

\* transform_contours_yx_pixels_to_target_crs, lines 404-420: every point
\* <<x, y>> in pixels of the full image becomes a point of the layer's CRS.
transform_contours_yx_pixels_to_target_crs(polygons) ==
    LET x_left  == extended_extent.xMin
        y_upper == extended_extent.yMax
    IN  [i \in DOMAIN polygons |->
            [j \in DOMAIN polygons[i] |->
                <<polygons[i][j][1] * rlayer_units_per_pixel + x_left,
                  0 - (polygons[i][j][2] * rlayer_units_per_pixel - y_upper)>>]]

\* ------------------------------------------------- _create_vlayer_from_mask
\* cv2.findContours is opaque: any forest of at most MaxContours contours may
\* come out of the mask.  Contours are numbered from 0, a parent before its
\* children, siblings in the order of their numbers; contour 0 is the first
\* contour of the top level.
MaxContours == 4
PointCounts == {2, 3, 4}

ParentMaps(n) ==
    { parent \in [0..(n - 1) -> -1..(n - 2)] : \A i \in 0..(n - 1) : parent[i] < i }

FirstOf(S) == IF S = {} THEN -1 ELSE CHOOSE m \in S : \A o \in S : m <= o
LastOf(S) == IF S = {} THEN -1 ELSE CHOOSE m \in S : \A o \in S : m >= o

\* hierarchy[0] of cv2.RETR_TREE: <<next, previous, first_child, parent>>
\* (Python's hierarchy[i][0], [1], [2], [3]).
HierarchyOf(parent) ==
    [i \in DOMAIN parent |->
        LET siblings == { j \in DOMAIN parent : parent[j] = parent[i] }
        IN  <<FirstOf({ j \in siblings : j > i }),
              LastOf({ j \in siblings : j < i }),
              FirstOf({ j \in DOMAIN parent : parent[j] = i }),
              parent[i]>>]

\* Contour i with n points <<x, y>>, in pixels of the full image; two contours
\* never have the same points.
ContourPoints(i, n) ==
    [k \in 1..n |-> <<(i + k - 1) % img_size_x_pixels,
                      ((i + k - 1) \div img_size_x_pixels) % img_size_y_pixels>>]

\* A call of _convert_cv_contours_to_features, lines 336-339: it returns at
\* once for index -1, and starts its loop at the contour otherwise.
_convert_cv_contours_to_features(stk, current_contour_index, is_hole) ==
    IF current_contour_index = -1
    THEN stk
    ELSE Append(stk, [current_contour_index |-> current_contour_index,
                      is_hole               |-> is_hole,
                      internal_holes        |-> << >>,
                      at                    |-> "visit"])

Frame == stack[Len(stack)]

\* Lines 378-386: walk from contour 0 if there is any contour.
StartWalk ==
    /\ pc = "postprocess"
    /\ vec_pc = "found"
    /\ IF Cardinality(DOMAIN cv_contours) > 0
       THEN /\ stack' = _convert_cv_contours_to_features(<< >>, 0, FALSE)
            /\ vec_pc' = "walk"
       ELSE /\ stack' = << >>
            /\ vec_pc' = "add"
    /\ UNCHANGED <<geometry, pc, x_bin_number, y_bin_number, full_result_img,
                   canceled, progress_log, result, finished_signal,
                   project_layers, write_count, visited, calls, outcome,
                   cv_contours, hierarchy, features, vec_visited>>

VisitContour_two_points_suffice ==
    /\ vec_pc = "walk"
    /\ Frame.at = "visit"
    /\ LET top     == Len(stack)
           contour == cv_contours[Frame.current_contour_index]
       IN  /\ vec_visited' = Append(vec_visited, Frame.current_contour_index)
           /\ IF Len(contour) >= 2
              THEN LET first_child == hierarchy[Frame.current_contour_index][3]
                   IN  stack' = _convert_cv_contours_to_features(
                                    [stack EXCEPT ![top].internal_holes = << >>,
                                                  ![top].at = "emit"],
                                    first_child, ~Frame.is_hole)
              ELSE stack' = [stack EXCEPT ![top].at = "next"]
    /\ UNCHANGED <<geometry, pc, x_bin_number, y_bin_number, full_result_img,
                   canceled, progress_log, result, finished_signal,
                   project_layers, write_count, visited, calls, outcome,
                   cv_contours, hierarchy, features, vec_pc>>

\* Lines 341-351: look at the contour; with 3 points or more, walk its
\* children first, with the flag toggled and a fresh list of holes.
VisitContour ==
    /\ vec_pc = "walk"
    /\ Frame.at = "visit"
    /\ LET top     == Len(stack)
           contour == cv_contours[Frame.current_contour_index]
       IN  /\ vec_visited' = Append(vec_visited, Frame.current_contour_index)
           /\ IF Len(contour) >= 3
              THEN LET first_child == hierarchy[Frame.current_contour_index][3]
                   IN  stack' = _convert_cv_contours_to_features(
                                    [stack EXCEPT ![top].internal_holes = << >>,
                                                  ![top].at = "emit"],
                                    first_child, ~Frame.is_hole)
              ELSE stack' = [stack EXCEPT ![top].at = "next"]
    /\ UNCHANGED <<geometry, pc, x_bin_number, y_bin_number, full_result_img,
                   canceled, progress_log, result, finished_signal,
                   project_layers, write_count, visited, calls, outcome,
                   cv_contours, hierarchy, features, vec_pc>>

EmitContour_without_holes ==
    /\ vec_pc = "walk"
    /\ Frame.at = "emit"
    /\ LET top     == Len(stack)
           contour == cv_contours[Frame.current_contour_index]
       IN  IF Frame.is_hole
           THEN /\ stack' = IF top = 1
                            THEN [stack EXCEPT ![top].at = "next"]
                            ELSE [stack EXCEPT
                                    ![top - 1].internal_holes = Append(@, contour),
                                    ![top].at = "next"]
                /\ UNCHANGED features
           ELSE /\ features' = Append(features, <<contour>>)
                /\ stack' = [stack EXCEPT ![top].at = "next"]
    /\ UNCHANGED <<geometry, pc, x_bin_number, y_bin_number, full_result_img,
                   canceled, progress_log, result, finished_signal,
                   project_layers, write_count, visited, calls, outcome,
                   cv_contours, hierarchy, vec_pc, vec_visited>>

\* Lines 353-365, after the children's walk: a hole joins current_holes (the
\* caller's internal_holes; the list of the first call is never read), any
\* other contour becomes a feature with its internal_holes.
EmitContour ==
    /\ vec_pc = "walk"
    /\ Frame.at = "emit"
    /\ LET top     == Len(stack)
           contour == cv_contours[Frame.current_contour_index]
       IN  IF Frame.is_hole
           THEN /\ stack' = IF top = 1
                            THEN [stack EXCEPT ![top].at = "next"]
                            ELSE [stack EXCEPT
                                    ![top - 1].internal_holes = Append(@, contour),
                                    ![top].at = "next"]
                /\ UNCHANGED features
           ELSE /\ features' = Append(features, <<contour>> \o Frame.internal_holes)
                /\ stack' = [stack EXCEPT ![top].at = "next"]
    /\ UNCHANGED <<geometry, pc, x_bin_number, y_bin_number, full_result_img,
                   canceled, progress_log, result, finished_signal,
                   project_layers, write_count, visited, calls, outcome,
                   cv_contours, hierarchy, vec_pc, vec_visited>>

\* Lines 367-369: go to the next contour of the level, or return.
NextSibling ==
    /\ vec_pc = "walk"
    /\ Frame.at = "next"
    /\ LET top  == Len(stack)
           next == hierarchy[Frame.current_contour_index][1]
       IN  IF next = -1
           THEN /\ stack' = SubSeq(stack, 1, top - 1)
                /\ vec_pc' = IF top = 1 THEN "add" ELSE "walk"
           ELSE /\ stack' = [stack EXCEPT ![top].current_contour_index = next,
                                          ![top].at = "visit"]
                /\ UNCHANGED vec_pc
    /\ UNCHANGED <<geometry, pc, x_bin_number, y_bin_number, full_result_img,
                   canceled, progress_log, result, finished_signal,
                   project_layers, write_count, visited, calls, outcome,
                   cv_contours, hierarchy, features, vec_visited>>

\* Lines 388-402 and the return True of line 328.
addFeatures ==
    /\ vec_pc = "add"
    /\ vec_pc' = "done"
    /\ calls' = [calls EXCEPT !.create_vlayer = @ + 1]
    /\ project_layers' = project_layers + 1
    /\ pc' = "returned"
    /\ result' = "True"
    /\ outcome' = "ok"
    /\ UNCHANGED <<geometry, x_bin_number, y_bin_number, full_result_img,
                   canceled, progress_log, finished_signal, write_count, visited,
                   cv_contours, hierarchy, features, stack, vec_visited>>

\* _create_vlayer_from_mask at line 377, after a one-tile run of _process: a
\* layer of 3 x 3 pixels, tile size 3, no overlap, every pixel copied from
\* the tile; the contours are found and transformed, features is empty.
VecInit ==
    /\ rlayer = [extent |-> Rect(0, 0, 3, 3), grid_spacing |-> 1]
    /\ inference_parameters = [tile_size_px |-> 3, processing_overlap_px |-> 0]
    /\ rlayer_units_per_pixel = 1
    /\ base_extent = Rect(0, 0, 3, 3)
    /\ extended_extent = Rect(0, 0, 3, 3)
    /\ img_size_x_pixels = 3
    /\ img_size_y_pixels = 3
    /\ x_bins_number = 1
    /\ y_bins_number = 1
    /\ mask_size_px = 3
    /\ pc = "postprocess"
    /\ x_bin_number = 0
    /\ y_bin_number = 0
    /\ full_result_img = [p \in (0..2) \X (0..2) |-> MaskValue(0, p[1], p[2])]
    /\ canceled = FALSE
    /\ progress_log = <<[num |-> 0, den |-> 1]>>
    /\ result = "none"
    /\ finished_signal = "none"
    /\ project_layers = 0
    /\ write_count = [p \in (0..2) \X (0..2) |-> 1]
    /\ visited = << <<0, 0>> >>
    /\ calls = [isCanceled |-> 1, get_image |-> 1, process_tile |-> 1,
                set_mask |-> 1, create_vlayer |-> 0]
    /\ outcome = "none"
    /\ \E n \in 0..MaxContours :
       \E parent \in ParentMaps(n), points \in [0..(n - 1) -> PointCounts] :
         LET contours == [i \in 0..(n - 1) |-> ContourPoints(i, points[i])]
         IN  /\ cv_contours = transform_contours_yx_pixels_to_target_crs(contours)
             /\ hierarchy = HierarchyOf(parent)
    /\ features = << >>
    /\ stack = << >>
    /\ vec_pc = "found"
    /\ vec_visited = << >>

VecNext ==
    \/ StartWalk
    \/ VisitContour
    \/ EmitContour
    \/ NextSibling
    \/ addFeatures

\* The walk runs inside _process on the task's thread: it goes on while it
\* has a step to take.
SpecVec == VecInit /\ [][VecNext]_vars /\ WF_vars(VecNext)

\* ================================================================ claims
tile_size_px == inference_parameters.tile_size_px

\* The pixels of tile <<row, col>>'s core_region_full, as the slice names them.
CoreRegionFull(row, col) ==
    LET r == get_slice_on_full_image_for_copying(
                 TileParams(col, row, x_bins_number, y_bins_number,
                            inference_parameters, rlayer_units_per_pixel,
                            extended_extent))
    IN  (r.y_start..(r.y_stop - 1)) \X (r.x_start..(r.x_stop - 1))

Tiles == (0..(y_bins_number - 1)) \X (0..(x_bins_number - 1))

\* C1: after a complete stitching run every pixel of the output buffer has
\* been written by exactly one tile's copy: none twice, none never.
C1_EveryPixelWrittenOnce ==
    outcome = "ok" => \A p \in Pixels : write_count[p] = 1

\* C2: the core regions of all tiles together are exactly the output
\* rectangle [0, width) x [0, height) of the extended extent, and no core
\* region reaches outside it.
C2_CoreRegionsCoverImage ==
    /\ \A t \in Tiles : CoreRegionFull(t[1], t[2]) \subseteq Pixels
    /\ UNION { CoreRegionFull(t[1], t[2]) : t \in Tiles } = Pixels

\* C3: for every stride with 0 < stride <= tile size, horizontally and
\* vertically adjacent tiles have contiguous core ranges:
\* core[i].max + 1 = core[i + 1].min.
C3_AdjacentCoresContiguous ==
    LET tp == CurrentTileParams
    IN  /\ \A col \in 0..(x_bins_number - 2) :
             CoreMax(col, x_bins_number, tp) + 1 = CoreMin(col + 1, tp)
        /\ \A row \in 0..(y_bins_number - 2) :
             CoreMax(row, y_bins_number, tp) + 1 = CoreMin(row + 1, tp)

\* C4: the pixel width and height of the extended extent leave no remainder:
\* (dimension_px - tile_size_px) mod stride_px = 0.
C4_ExtendedDimensionsAligned ==
    /\ (img_size_x_pixels - tile_size_px) % stride_px = 0
    /\ (img_size_y_pixels - tile_size_px) % stride_px = 0

\* The smallest tile_size_px + k * stride_px, k >= 0, that is >= d.
SmallestTiling(d) ==
    CHOOSE k \in 0..(Max(d, 0) + 1) :
        /\ tile_size_px + k * stride_px >= d
        /\ \A j \in 0..(k - 1) : tile_size_px + j * stride_px < d

\* C5: each extended pixel dimension is the smallest tile_size_px +
\* k * stride_px that is >= the padded, layer-clamped dimension, and the
\* number of tiles on that axis is k + 1.
C5_SmallestTilingAndCounts ==
    LET padded == PaddedExtent(base_extent, inference_parameters,
                               rlayer_units_per_pixel, rlayer)
        kx == SmallestTiling(PyRound(Width(padded), rlayer_units_per_pixel))
        ky == SmallestTiling(PyRound(Height(padded), rlayer_units_per_pixel))
    IN  /\ img_size_x_pixels = tile_size_px + kx * stride_px
        /\ img_size_y_pixels = tile_size_px + ky * stride_px
        /\ x_bins_number = kx + 1
        /\ y_bins_number = ky + 1

\* C6: an extended extent contains a base extent that lies in the layer, and
\* the growth to whole tiles moves only xMax and yMax of the padded extent,
\* upward.
C6_ExtendedContainsBase ==
    LET padded == PaddedExtent(base_extent, inference_parameters,
                               rlayer_units_per_pixel, rlayer)
    IN  /\ Contains(rlayer.extent, base_extent)
             => Contains(extended_extent, base_extent)
        /\ extended_extent.xMin = padded.xMin
        /\ extended_extent.yMin = padded.yMin
        /\ extended_extent.xMax >= padded.xMax
        /\ extended_extent.yMax >= padded.yMax

\* A base extent inside the layer that was padded on its min side and then
\* grown on its max side.
C6_Witness ==
    LET padded == PaddedExtent(base_extent, inference_parameters,
                               rlayer_units_per_pixel, rlayer)
    IN  /\ Contains(rlayer.extent, base_extent)
        /\ ~IsNull(base_extent)
        /\ padded.xMin < base_extent.xMin
        /\ extended_extent.xMax > padded.xMax
        /\ extended_extent.yMax > padded.yMax

\* C7: a run that ended because cancellation was seen emits a signal that
\* differs from "Processing error", the signal of a failed run.
C7_CanceledDistinctFromFailed ==
    (pc = "finished" /\ outcome = "canceled")
        => finished_signal # FinishedSignal("False")

\* C8: isCanceled is called once per iteration, before the tile's fetch; when
\* it returned true before tile k, exactly the k earlier tiles were fetched,
\* predicted and copied, and nothing was vectorized or added to the project.
C8_CancelCheckedBeforeEachTile ==
    /\ calls.isCanceled = Len(visited) + (IF outcome = "canceled" THEN 1 ELSE 0)
    /\ calls.get_image <= Len(visited)
    /\ pc = "fetch" => calls.get_image = calls.isCanceled - 1
    /\ outcome = "canceled" =>
         LET k == y_bin_number * x_bins_number + x_bin_number
         IN  /\ calls.isCanceled = k + 1
             /\ calls.get_image = k
             /\ calls.process_tile = k
             /\ calls.set_mask = k
             /\ calls.create_vlayer = 0
             /\ project_layers = 0

\* A run cancelled after at least one tile was copied, and reported.
C8_Witness ==
    /\ pc = "finished"
    /\ outcome = "canceled"
    /\ calls.set_mask >= 1

\* C9: a layer is added to the project only when every one of the
\* x_bins_number * y_bins_number tiles was fetched, predicted and copied; a
\* run in which an operation raised adds nothing.
C9_OutputOnlyAfterAllTiles ==
    /\ project_layers > 0 =>
         /\ outcome = "ok"
         /\ calls.get_image = total_tiles
         /\ calls.process_tile = total_tiles
         /\ calls.set_mask = total_tiles
    /\ outcome = "error" => project_layers = 0 /\ calls.create_vlayer = 0

\* A run whose prediction raised after an earlier tile had been copied.
C9_Witness ==
    /\ pc = "finished"
    /\ outcome = "error"
    /\ calls.set_mask >= 1
    /\ calls.process_tile > calls.set_mask
    /\ project_layers = 0

\* C10: iteration i visits bin <<i \div x_bins_number, i % x_bins_number>>
\* and reports i / total_tiles * 100 once; the reported values never
\* decrease and lie in [0, 100].
C10_RowMajorMonotoneProgress ==
    /\ Len(progress_log) = Len(visited)
    /\ \A i \in 1..Len(visited) :
         /\ visited[i] = <<(i - 1) \div x_bins_number, (i - 1) % x_bins_number>>
         /\ progress_log[i] = [num |-> (i - 1) * 100, den |-> total_tiles]
         /\ 0 <= progress_log[i].num
         /\ progress_log[i].num <= 100 * progress_log[i].den
    /\ \A i, j \in 1..Len(progress_log) :
         i < j => progress_log[i].num * progress_log[j].den
                    <= progress_log[j].num * progress_log[i].den

\* A finished run over a grid of at least two rows and two columns.
C10_Witness ==
    /\ outcome = "ok"
    /\ x_bins_number >= 2
    /\ y_bins_number >= 2
    /\ Len(progress_log) = total_tiles

CurrentPixels ==
    LET padded == PaddedExtent(base_extent, inference_parameters,
                               rlayer_units_per_pixel, rlayer)
    IN  [x |-> PyRound(Width(padded), rlayer_units_per_pixel),
         y |-> PyRound(Height(padded), rlayer_units_per_pixel)]

\* C12: when the computed area is degenerate (pixel width or height <= 0) the
\* run fails before any tile is processed; a run that processes tiles has at
\* least one column and one row of tiles.
C12_EmptyAreaFails ==
    /\ (CurrentPixels.x <= 0 \/ CurrentPixels.y <= 0) =>
         /\ calls.get_image = 0
         /\ pc # "created" => outcome = "error"
    /\ calls.get_image >= 1 => (x_bins_number >= 1 /\ y_bins_number >= 1)

\* The grid line at or below coordinate v on a grid through start with the
\* given spacing.
GridFloor(v, start, spacing) == start + ((v - start) \div spacing) * spacing

\* C13: round_extent_to_rlayer_grid moves each of the four bounds of every
\* extent down to the nearest grid line (floor), also below the grid origin:
\* the result is <= the input and less than one spacing below it.
C13_RoundToGridFloors ==
    \A e \in ExpectedExtents(rlayer) :
        LET r == round_extent_to_rlayer_grid(e, rlayer)
            g == rlayer.grid_spacing
            Snapped(out, in, start) ==
                /\ out = GridFloor(in, start, g)
                /\ out <= in
                /\ in - out < g
        IN  /\ Snapped(r.xMin, e.xMin, rlayer.extent.xMin)
            /\ Snapped(r.xMax, e.xMax, rlayer.extent.xMin)
            /\ Snapped(r.yMin, e.yMin, rlayer.extent.yMin)
            /\ Snapped(r.yMax, e.yMax, rlayer.extent.yMin)

\* The tiles whose core_region_full contains pixel p.
Owners(p) == { t \in Tiles : p \in CoreRegionFull(t[1], t[2]) }

\* C16: the buffer starts all zero, and when all tiles are stitched every
\* pixel <<y, x>> holds mask_t[y - row * stride_px][x - col * stride_px] of
\* the one tile t = <<row, col>> whose core region contains it, an index
\* inside the tile.
C16_StitchedPixelsFromOwnTile ==
    /\ (pc = "check" /\ calls.set_mask = 0) =>
          \A p \in Pixels : full_result_img[p] = 0
    /\ pc = "postprocess" =>
          \A p \in Pixels :
            /\ Cardinality(Owners(p)) = 1
            /\ \A t \in Owners(p) :
                 LET ly == p[1] - t[1] * stride_px
                     lx == p[2] - t[2] * stride_px
                 IN  /\ ly \in 0..(tile_size_px - 1)
                     /\ lx \in 0..(tile_size_px - 1)
                     /\ full_result_img[p]
                          = MaskValue(t[1] * x_bins_number + t[2], ly, lx)

\* C17: for every tile of the grid the pixel-to-spatial transform maps the
\* tile's pixel origin (col*stride_px, row*stride_px) to the (xMin, yMax)
\* corner of the tile's extent, the tile's extent is exactly
\* tile_size_px * units_per_pixel wide and high, and the tile's extent lies
\* inside the extended extent.
C17_TransformAgreesWithTilePlacement ==
    \A t \in Tiles :
        LET tp == TileParams(t[2], t[1], x_bins_number, y_bins_number,
                             inference_parameters, rlayer_units_per_pixel,
                             extended_extent)
            corner == transform_contours_yx_pixels_to_target_crs(
                          << << <<t[2] * stride_px, t[1] * stride_px>> >> >>)[1][1]
        IN  /\ corner = <<tp.extent.xMin, tp.extent.yMax>>
            /\ Width(tp.extent) = tile_size_px * rlayer_units_per_pixel
            /\ Height(tp.extent) = tile_size_px * rlayer_units_per_pixel
            /\ Contains(extended_extent, tp.extent)

\* The contour tree, read from the hierarchy's links.
ContourIds == DOMAIN cv_contours
ParentOf(i) == hierarchy[i][4]
HasPoints(i) == Len(cv_contours[i]) >= 3

RECURSIVE Ancestors(_)
Ancestors(i) ==
    IF ParentOf(i) = -1 THEN {} ELSE {ParentOf(i)} \cup Ancestors(ParentOf(i))

Depth(i) == Cardinality(Ancestors(i))

\* The rings, in sibling order from contour i on, that have 3 points or more.
RECURSIVE RingsFrom(_)
RingsFrom(i) ==
    IF i = -1
    THEN << >>
    ELSE (IF HasPoints(i) THEN <<cv_contours[i]>> ELSE << >>)
             \o RingsFrom(hierarchy[i][1])

ChildHoleRings(i) == RingsFrom(hierarchy[i][3])

FeaturesOf(i) == { k \in DOMAIN features : features[k][1] = cv_contours[i] }
RingsUsed ==
    UNION { { features[k][r] : r \in DOMAIN features[k] } : k \in DOMAIN features }

\* What the claim says of the features, for the contours in Filled.
FeaturesAre(Filled) ==
    /\ Len(features) = Cardinality(Filled)
    /\ \A i \in Filled :
         /\ Cardinality(FeaturesOf(i)) = 1
         /\ \A k \in FeaturesOf(i) : Tail(features[k]) = ChildHoleRings(i)
    /\ \A i \in ContourIds : Depth(i) % 2 = 1 => FeaturesOf(i) = {}
    /\ \A k \in DOMAIN features :
         \E i \in Filled : features[k][1] = cv_contours[i]

\* C14 as stated: when the walk is over, there is exactly one feature per
\* even-depth contour with 3 points or more, its hole rings are its immediate
\* children with 3 points or more in sibling order, no odd-depth contour is
\* a feature's outer ring, and a square with one square hole gives one
\* feature with one hole ring.
C14_OneFeaturePerFilledContour ==
    vec_pc = "done" =>
        /\ FeaturesAre({ i \in ContourIds : Depth(i) % 2 = 0 /\ HasPoints(i) })
        /\ ( /\ ContourIds = {0, 1}
             /\ ParentOf(1) = 0
             /\ Len(cv_contours[0]) = 4
             /\ Len(cv_contours[1]) = 4 )
           => (Len(features) = 1 /\ Len(features[1]) = 2)

\* C14 amended: the same, for the even-depth contours with 3 points or more
\* all of whose ancestors have 3 points or more (the walk does not enter the
\* children of a contour it skips).
C14_OneFeaturePerWalkedFilledContour ==
    vec_pc = "done" =>
        /\ FeaturesAre({ i \in ContourIds :
                           /\ Depth(i) % 2 = 0
                           /\ HasPoints(i)
                           /\ \A a \in Ancestors(i) : HasPoints(a) })
        /\ ( /\ ContourIds = {0, 1}
             /\ ParentOf(1) = 0
             /\ Len(cv_contours[0]) = 4
             /\ Len(cv_contours[1]) = 4 )
           => (Len(features) = 1 /\ Len(features[1]) = 2)

\* A finished walk that made a feature with two hole rings and a feature of
\* a contour nested in a hole.
C14_Witness ==
    /\ vec_pc = "done"
    /\ \E k \in DOMAIN features : Len(features[k]) = 3
    /\ \E i \in ContourIds : Depth(i) = 2 /\ FeaturesOf(i) # {}

DegenerateSkipped ==
    vec_pc = "done" =>
        /\ \A i \in ContourIds :
             ~HasPoints(i) =>
                 /\ cv_contours[i] \notin RingsUsed
                 /\ \A j \in ContourIds :
                      i \in Ancestors(j) => cv_contours[j] \notin RingsUsed
        /\ \A v \in DOMAIN vec_visited :
             LET i    == vec_visited[v]
                 next == hierarchy[i][1]
             IN  (~HasPoints(i) /\ next # -1) =>
                     \E w \in DOMAIN vec_visited : w > v /\ vec_visited[w] = next

\* C15: a contour with fewer than 3 points is in no feature, neither as
\* outer ring nor as hole ring, and neither is any of its descendants; after
\* looking at such a contour the walk looks at its next sibling; and the walk
\* always comes to its end.
C15_DegenerateContourSkipped ==
    []DegenerateSkipped /\ <>(vec_pc = "done")

\* A finished walk that skipped a contour with a child of 3 points or more
\* and went on to its next sibling, which is in a feature.
C15_Witness ==
    /\ vec_pc = "done"
    /\ \E v \in DOMAIN vec_visited :
         LET i == vec_visited[v]
         IN  /\ ~HasPoints(i)
             /\ hierarchy[i][3] # -1
             /\ HasPoints(hierarchy[i][3])
             /\ hierarchy[i][1] # -1
             /\ cv_contours[hierarchy[i][1]] \in RingsUsed

====
